---- MODULE Spec2Model ----
\* Model of jpwaves/aws-scripts:
\*   src/process_emails_aws_cloudwatch.py  (CSVEmailsProcessor and its command line)
\*   src/extract_emails_aws_cloudwatch.py  (the bounce extractor)
\*
\* Python values are modelled as follows.
\*   - an email address, a timestamp and an eventType are strings; Python's None in
\*     such a position is the marker string None, a JSON list in the position of a
\*     recipient (an unhashable value) is the marker string Unhashable;
\*   - a diagnostic text is a sequence of one-character strings, so that the
\*     whitespace cleaning is computed character by character;
\*   - a dict that keeps insertion order (processed_emails, email_reasons) is a
\*     sequence of entries with pairwise distinct keys.
EXTENDS Integers, Sequences, FiniteSets, TLC

VARIABLES
    processed_emails,   \* CSVEmailsProcessor.processed_emails, NotCreated before __init__
    row,                \* the row the loop of process / process_csv holds
    nread,              \* number of rows read from the csv file so far
    pc,                 \* position of the run
    err,                \* what the handling of the last row wrote to stderr
    report,             \* outcome of the last print_emails call
    args,               \* the parsed command line
    email_reasons,      \* the extractor's email_reasons mapping
    csvfile,            \* the rows of the csv file, where they are fixed before
                        \* the run (SpecProcess); NoFile where each row is drawn
                        \* when the reader yields it
    raw_text,           \* the argument of a call of clean_text (SpecClean)
    cleaned_text        \* what that call returned, NotCleaned before the call

vars == <<processed_emails, row, nread, pc, err, report, args, email_reasons,
         csvfile, raw_text, cleaned_text>>

-----------------------------------------------------------------------------
\* Bounds of the model

\* number of rows of the csv file
MaxRows == 2

\* number of entries of bouncedRecipients / recipients / destination of a row
MaxRecipients == 2

\* number of characters of a text clean_text is called with
MaxLen == 4

-----------------------------------------------------------------------------
\* Values

None == "<None>"
Unhashable == "<list>"
Absent == "<absent>"

Emails == {"a@x.com", "b@x.com"}

\* lexicographic order of the strings used as emails ("" is the least string)
EmailRank(e) == CASE e = "" -> 0 [] e = "a@x.com" -> 1 [] e = "b@x.com" -> 2

\* lexicographic order of the strings used as timestamps
TimestampRank(t) == CASE t = "T0" -> 0 [] t = "T1" -> 1

\* class EventType(Enum)
EventType == {"Bounce", "Delivery", "Send"}

\* 'No diagnostic code provided'
NoDiagnosticCodeProvided ==
    <<"N","o"," ","d","i","a","g","n","o","s","t","i","c"," ",
      "c","o","d","e"," ","p","r","o","v","i","d","e","d">>

\* a JSON string / JSON null as a Python value
Str(text) == [tag |-> "str", text |-> text]
Null == [tag |-> "null", text |-> <<>>]
\* the key is not in the JSON object
Missing == [tag |-> "absent", text |-> <<>>]
\* the bound instance passed as first argument of a method call
Self == [tag |-> "self", text |-> <<>>]

-----------------------------------------------------------------------------
\* clean_text: re.sub(r'\s+', ' ', text).strip()

IsSpace(c) == c \in {" ", "\t", "\n", "\r", "\f"}

\* re.sub(r'\s+', ' ', text): every maximal run of whitespace becomes one space
RECURSIVE re_sub_spaces(_)
re_sub_spaces(text) ==
    IF text = <<>> THEN <<>>
    ELSE IF IsSpace(Head(text))
         THEN IF Len(text) > 1 /\ IsSpace(text[2])
              THEN re_sub_spaces(Tail(text))
              ELSE <<" ">> \o re_sub_spaces(Tail(text))
         ELSE <<Head(text)>> \o re_sub_spaces(Tail(text))

RECURSIVE lstrip(_)
lstrip(text) ==
    IF text # <<>> /\ IsSpace(Head(text)) THEN lstrip(Tail(text)) ELSE text

RECURSIVE rstrip(_)
rstrip(text) ==
    IF text # <<>> /\ IsSpace(text[Len(text)])
    THEN rstrip(SubSeq(text, 1, Len(text) - 1))
    ELSE text

\* Variant of strip that removes leading whitespace only (str.lstrip).
strip_leading_only(text) == lstrip(text)

\* str.strip()
strip(text) == rstrip(lstrip(text))

clean_text(text) == strip(re_sub_spaces(text))

\* Outcome of a call of a function that declares the one parameter `text`
\* (def clean_text(text) / def __clean_text(text)) with the positional arguments
\* argv: a TypeError when the number of arguments is not one, or when re.sub
\* gets a value that is not a string.
clean_text_call(argv) ==
    IF Len(argv) # 1 THEN [raised |-> "TypeError", value |-> <<>>]
    ELSE IF argv[1].tag # "str" THEN [raised |-> "TypeError", value |-> <<>>]
    ELSE [raised |-> "none", value |-> clean_text(argv[1].text)]

-----------------------------------------------------------------------------
\* Rows of the csv file (csv.DictReader rows)

\* sequences over S of length at most n
SeqsUpTo(S, n) == UNION {[1..k -> S] : k \in 0..n}

\* An element of bounce.bouncedRecipients: a JSON object with an optional
\* emailAddress and an optional diagnosticCode, or a value that is no object.
\* The first two texts differ in their whitespace only.
DiagnosticTexts ==
    { <<" ","5","5","0"," "," ","f","\n","u","l","l"," ">>,
      <<"5","5","0"," ","f"," ","u","l","l">>,
      <<>> }

BouncedRecipientValues ==
    [isdict : {TRUE}, emailAddress : {"a@x.com"},
     diagnosticCode : {Missing, Null} \cup {Str(t) : t \in DiagnosticTexts}]
    \cup [isdict : {TRUE}, emailAddress : {Absent},
          diagnosticCode : {Null, Str(<<"5","5","0"," ","f"," ","u","l","l">>)}]
    \cup {[isdict |-> FALSE, emailAddress |-> Absent, diagnosticCode |-> Missing]}

\* An element of delivery.recipients / mail.destination
RecipientValues == Emails \cup {None, Unhashable}

\* The message column of a row:
\*   message = "nokey"     the row has no 'message' key
\*   message = "malformed" the text is not JSON
\*   message = "nonobject" the text is JSON but not an object
\*   message = "object"    the text is a JSON object with the optional key
\*                         eventType and at most one of the substructures
\*                         bounce, delivery, mail (named by sub), which has the
\*                         optional key timestamp and a list of recipients
NoRow ==
    [message |-> "norow", eventType |-> Absent, sub |-> "none",
     timestamp |-> Absent, bouncedRecipients |-> <<>>, recipients |-> <<>>]

Unparsed(m) == [NoRow EXCEPT !.message = m]

\* rows whose eventType is 'Bounce' and that have a bounce substructure
BounceRows ==
    { [message |-> "object", eventType |-> "Bounce", sub |-> "bounce",
       timestamp |-> "T0", bouncedRecipients |-> rs, recipients |-> <<>>] :
         rs \in SeqsUpTo(BouncedRecipientValues, MaxRecipients) }

\* rows whose eventType is 'Delivery' / 'Send' and that have a delivery / mail
\* substructure, with or without a timestamp
RecipientRowsOf(eventType, sub, timestamps) ==
    { [message |-> "object", eventType |-> eventType, sub |-> sub, timestamp |-> ts,
       bouncedRecipients |-> <<>>, recipients |-> rs] :
         ts \in timestamps, rs \in SeqsUpTo(RecipientValues, MaxRecipients) }

RecipientRows ==
    RecipientRowsOf("Delivery", "delivery", {"T1", Absent})
    \cup RecipientRowsOf("Send", "mail", {"T0", Absent})

\* rows whose eventType is unknown or absent, with a substructure that names
\* a recipient, and rows of a known eventType without its substructure
OtherRows ==
    { [message |-> "object", eventType |-> et, sub |-> "bounce",
       timestamp |-> "T0",
       bouncedRecipients |-> <<[isdict |-> TRUE, emailAddress |-> "a@x.com",
                                diagnosticCode |-> Missing]>>,
       recipients |-> <<>>] : et \in {"Complaint", Absent} }
    \cup
    { [message |-> "object", eventType |-> et, sub |-> sub, timestamp |-> "T0",
       bouncedRecipients |-> <<>>, recipients |-> <<"a@x.com">>] :
         et \in {"Complaint", Absent}, sub \in {"delivery", "mail"} }
    \cup
    { [message |-> "object", eventType |-> et, sub |-> "none", timestamp |-> Absent,
       bouncedRecipients |-> <<>>, recipients |-> <<>>] : et \in EventType }

Rows ==
    {Unparsed("nokey"), Unparsed("malformed"), Unparsed("nonobject")}
    \cup BounceRows \cup RecipientRows \cup OtherRows

\* dict.get(key): the value, or None when the key is absent
Get(v) == IF v = Absent THEN None ELSE v

\* bool(v) of an optional string
Truthy(v) == v \notin {None, ""}

-----------------------------------------------------------------------------
\* The ordered mapping email -> summary

NotCreated == <<[email |-> "<no processor>"]>>

Keys(map) == {map[i].email : i \in DOMAIN map}

IndexOf(map, email) == CHOOSE i \in DOMAIN map : map[i].email = email

\* CSVEmailsProcessor.__default_value
default_value == [type |-> None, reasons |-> {}, occurred_at |-> None]

\* Variant of GetOrCreate for a list of events instead of a mapping: every
\* subscript adds an entry.
GetOrCreate_always_appends(map, email) ==
    Append(map, [email |-> email, type |-> default_value.type,
                 reasons |-> default_value.reasons,
                 occurred_at |-> default_value.occurred_at])

\* defaultdict.__getitem__: a missing key is inserted with the default value
GetOrCreate(map, email) ==
    IF email \in Keys(map) THEN map
    ELSE Append(map, [email |-> email, type |-> default_value.type,
                      reasons |-> default_value.reasons,
                      occurred_at |-> default_value.occurred_at])

\* Variant of SetType that subscripts the mapping, which inserts the default
\* value for a missing key, and does not store the type.
SetType_only_creates(map, email, type) == GetOrCreate(map, email)

\* self.processed_emails[email]["type"] = type, and so on
SetType(map, email, type) ==
    LET m == GetOrCreate(map, email) IN [m EXCEPT ![IndexOf(m, email)].type = type]

AddReason(map, email, reason) ==
    LET m == GetOrCreate(map, email)
    IN [m EXCEPT ![IndexOf(m, email)].reasons = @ \cup {reason}]

SetOccurredAt(map, email, occurred_at) ==
    LET m == GetOrCreate(map, email)
    IN [m EXCEPT ![IndexOf(m, email)].occurred_at = occurred_at]

-----------------------------------------------------------------------------
\* CSVEmailsProcessor: the handlers of process_event.  A handler yields the
\* mapping it leaves behind and the exception it raised ("none" if it returned).

Returned(map) == [map |-> map, raised |-> "none"]
Raised(map, exc) == [map |-> map, raised |-> exc]

\* The body of the loop of __process_bounce from entry i on.
RECURSIVE process_bounce_from(_, _, _, _)
process_bounce_from(map, bounced_recipients, timestamp, i) ==
    IF i > Len(bounced_recipients) THEN Returned(map)
    ELSE LET recipient == bounced_recipients[i] IN
         \* recipient.get on a value that is no dict
         IF ~recipient.isdict THEN Raised(map, "AttributeError")
         ELSE LET email == Get(recipient.emailAddress)
                  reason == IF recipient.diagnosticCode = Missing
                            THEN Str(NoDiagnosticCodeProvided)
                            ELSE recipient.diagnosticCode
                  occurred_at == Get(timestamp)
                  \* self.__clean_text(reason): the bound method receives
                  \* the instance and reason
                  cleaned == clean_text_call(<<Self, reason>>)
              IN IF cleaned.raised # "none" THEN Raised(map, cleaned.raised)
                 ELSE IF Truthy(email)
                 THEN process_bounce_from(
                          SetOccurredAt(
                              AddReason(SetType(map, email, "Bounce"),
                                        email, cleaned.value),
                              email, occurred_at),
                          bounced_recipients, timestamp, i + 1)
                 ELSE process_bounce_from(map, bounced_recipients, timestamp, i + 1)

\* event.get('bounce', {}).get('bouncedRecipients', [])
process_bounce(map, event) ==
    IF event.sub = "bounce"
    THEN process_bounce_from(map, event.bouncedRecipients, event.timestamp, 1)
    ELSE Returned(map)

\* The body of the loop of __process_delivery / __process_send from entry i on:
\* the subscript processed_emails[recipient] hashes the recipient.
RECURSIVE process_recipients_from(_, _, _, _, _)
process_recipients_from(map, recipients, timestamp, type, i) ==
    IF i > Len(recipients) THEN Returned(map)
    ELSE LET recipient == recipients[i]
             at == Get(timestamp)
         IN IF recipient = Unhashable THEN Raised(map, "TypeError")
            ELSE process_recipients_from(
                     SetOccurredAt(SetType(map, recipient, type), recipient, at),
                     recipients, timestamp, type, i + 1)

\* Variant of process_delivery that also records a reason, as the bounce
\* handler does.
process_delivery_adds_reason(map, event) ==
    IF event.sub = "delivery"
    THEN LET r == process_recipients_from(map, event.recipients, event.timestamp,
                                          "Delivery", 1)
         IN [r EXCEPT !.map =
               [i \in DOMAIN r.map |->
                  IF \E j \in DOMAIN event.recipients :
                        event.recipients[j] = r.map[i].email
                  THEN [r.map[i] EXCEPT !.reasons = @ \cup {NoDiagnosticCodeProvided}]
                  ELSE r.map[i]]]
    ELSE Returned(map)

process_delivery(map, event) ==
    IF event.sub = "delivery"
    THEN process_recipients_from(map, event.recipients, event.timestamp, "Delivery", 1)
    ELSE Returned(map)

process_send(map, event) ==
    IF event.sub = "mail"
    THEN process_recipients_from(map, event.recipients, event.timestamp, "Send", 1)
    ELSE Returned(map)

\* Variant of process_event_try that, as the extractor does, looks at the
\* substructure of the message instead of its eventType.
process_event_try_by_substructure(map, event) ==
    CASE event.message = "nokey" -> Raised(map, "KeyError")
      [] event.message = "malformed" -> Raised(map, "JSONDecodeError")
      [] event.message = "nonobject" -> Raised(map, "AttributeError")
      [] OTHER ->
           CASE event.sub = "bounce" -> process_bounce(map, event)
             [] event.sub = "delivery" -> process_delivery(map, event)
             [] event.sub = "mail" -> process_send(map, event)
             [] OTHER -> [map |-> map, raised |-> "skip"]

\* The try block of process_event: json.loads(event['message']) and the
\* dispatch on eventType.
process_event_try(map, event) ==
    CASE event.message = "nokey" -> Raised(map, "KeyError")
      [] event.message = "malformed" -> Raised(map, "JSONDecodeError")
      [] event.message = "nonobject" -> Raised(map, "AttributeError")
      [] OTHER ->
           CASE event.eventType = "Bounce" -> process_bounce(map, event)
             [] event.eventType = "Delivery" -> process_delivery(map, event)
             [] event.eventType = "Send" -> process_send(map, event)
             [] OTHER -> [map |-> map, raised |-> "skip"]

\* Variant of process_event without the clause `except json.JSONDecodeError`
\* and with a narrower last clause: the decode error leaves process_event.
process_event_json_uncaught(map, event) ==
    LET r == process_event_try(map, event)
    IN CASE r.raised = "none" -> [map |-> r.map, err |-> "none", propagates |-> FALSE]
         [] r.raised = "skip" ->
              [map |-> r.map, err |-> "Skipping event with unknown eventType",
               propagates |-> FALSE]
         [] r.raised = "JSONDecodeError" ->
              [map |-> r.map, err |-> "Unexpected error", propagates |-> TRUE]
         [] r.raised = "KeyError" ->
              [map |-> r.map, err |-> "Missing key in event", propagates |-> FALSE]
         [] OTHER ->
              [map |-> r.map, err |-> "Unexpected error processing event",
               propagates |-> FALSE]

\* Variant of process_event whose last clause is `except TypeError` instead
\* of `except Exception`: an AttributeError leaves process_event.
process_event_narrow_except(map, event) ==
    LET r == process_event_try(map, event)
    IN CASE r.raised = "none" -> [map |-> r.map, err |-> "none", propagates |-> FALSE]
         [] r.raised = "skip" ->
              [map |-> r.map, err |-> "Skipping event with unknown eventType",
               propagates |-> FALSE]
         [] r.raised = "JSONDecodeError" ->
              [map |-> r.map, err |-> "Error parsing JSON in event",
               propagates |-> FALSE]
         [] r.raised = "KeyError" ->
              [map |-> r.map, err |-> "Missing key in event", propagates |-> FALSE]
         [] r.raised = "TypeError" ->
              [map |-> r.map, err |-> "Unexpected error processing event",
               propagates |-> FALSE]
         [] OTHER ->
              [map |-> r.map, err |-> "Unexpected error", propagates |-> TRUE]

\* The except clauses of process_event: which message goes to stderr, and
\* whether the exception leaves process_event.
process_event(map, event) ==
    LET r == process_event_try(map, event)
    IN CASE r.raised = "none" -> [map |-> r.map, err |-> "none", propagates |-> FALSE]
         [] r.raised = "skip" ->
              [map |-> r.map, err |-> "Skipping event with unknown eventType",
               propagates |-> FALSE]
         [] r.raised = "JSONDecodeError" ->
              [map |-> r.map, err |-> "Error parsing JSON in event",
               propagates |-> FALSE]
         [] r.raised = "KeyError" ->
              [map |-> r.map, err |-> "Missing key in event", propagates |-> FALSE]
         [] OTHER ->
              [map |-> r.map, err |-> "Unexpected error processing event",
               propagates |-> FALSE]

-----------------------------------------------------------------------------
\* CSVEmailsProcessor.print_emails

\* The sort key of an item: item[1]["occurred_at"] for sort_by_date; for
\* sort_by_email the (email, data) tuple, whose comparison is decided by the
\* email because the emails are distinct keys.
SortKey(item, by) ==
    IF by = "occurred_at" THEN TimestampRank(item.occurred_at)
    ELSE EmailRank(item.email)

\* sorted(items, key): Python's sort is stable; x goes before the first
\* element that is greater than x.
RECURSIVE InsertStable(_, _, _)
InsertStable(sorted, x, by) ==
    IF sorted = <<>> THEN <<x>>
    ELSE IF SortKey(x, by) < SortKey(Head(sorted), by) THEN <<x>> \o sorted
    ELSE <<Head(sorted)>> \o InsertStable(Tail(sorted), x, by)

RECURSIVE SortedStable(_, _)
SortedStable(items, by) ==
    IF items = <<>> THEN <<>>
    ELSE InsertStable(SortedStable(SubSeq(items, 1, Len(items) - 1), by),
                      items[Len(items)], by)

\* sorted() compares every element of a list of two or more with another one,
\* and '<' between None and a string or None raises TypeError.
SortByDateRaises(items) ==
    Len(items) >= 2 /\ \E i \in DOMAIN items : items[i].occurred_at = None

SortByEmailRaises(items) ==
    Len(items) >= 2 /\ \E i \in DOMAIN items : items[i].email = None

\* Variant of FilterByType that ignores event_type.
FilterByType_keeps_all(map, event_type) == map

\* line 32: the dict comprehension keeps the entries whose type is event_type
FilterByType(map, event_type) ==
    IF event_type # None
    THEN SelectSeq(map, LAMBDA item : item.type = event_type)
    ELSE map

\* CSVEmailsProcessor.__build_print_header
build_print_header(event_type, total_emails) ==
    [kind |-> "header",
     text |-> CASE event_type = "Bounce" -> "Bounced emails"
                [] event_type = "Delivery" -> "Delivered emails"
                [] event_type = "Send" -> "Sent emails"
                [] OTHER -> "Processed Emails",
     total |-> total_emails]

\* lines 41-51: what is printed for one email
EmailLines(item, verbose) ==
    IF verbose
    THEN [kind |-> "block", email |-> item.email, type |-> item.type,
          occurred_at |-> item.occurred_at,
          reasons |-> IF item.type = "Bounce" THEN item.reasons ELSE {}]
    ELSE [kind |-> "email", email |-> item.email, type |-> "",
          occurred_at |-> "", reasons |-> {}]

\* The lines print_emails writes to stdout, or the exception it raises.
print_emails(map, event_type, verbose, sort_by_date, sort_by_email) ==
    LET filtered == FilterByType(map, event_type)
        dated == IF sort_by_date
                 THEN SortedStable(filtered, "occurred_at")
                 ELSE filtered
        emails_to_print == IF sort_by_email
                           THEN SortedStable(dated, "email")
                           ELSE dated
    IN IF sort_by_date /\ SortByDateRaises(filtered)
       THEN [raised |-> "TypeError", header |-> <<>>, lines |-> <<>>]
       ELSE IF sort_by_email /\ SortByEmailRaises(dated)
       THEN [raised |-> "TypeError", header |-> <<>>, lines |-> <<>>]
       ELSE [raised |-> "none",
             header |-> <<build_print_header(event_type, Len(emails_to_print))>>,
             lines |-> [i \in DOMAIN emails_to_print |->
                          EmailLines(emails_to_print[i], verbose)]]

-----------------------------------------------------------------------------
\* Use of a CSVEmailsProcessor: CSVEmailsProcessor(path).process() reads the
\* rows of the file in order, then print_emails is called any number of times.

NoArgs == [csv |-> None, verbose |-> FALSE, sort_by_date |-> FALSE,
           sort_by_email |-> FALSE]

\* no file contents are fixed
NoFile == <<>>

\* clean_text has not been called
NotCleaned == <<"<not cleaned>">>

NoReport == [called |-> FALSE, event_type |-> None, verbose |-> FALSE,
             sort_by_date |-> FALSE, sort_by_email |-> FALSE,
             out |-> [raised |-> "none", header |-> <<>>, lines |-> <<>>]]

\* __init__ and the call of process(): the file is open, no row is read
Init ==
    /\ processed_emails = <<>>
    /\ row = NoRow
    /\ nread = 0
    /\ pc = "process"
    /\ err = "none"
    /\ report = NoReport
    /\ args = NoArgs
    /\ email_reasons = <<>>
    /\ csvfile = NoFile
    /\ raw_text = <<>>
    /\ cleaned_text = NotCleaned

\* `for row in reader: self.process_event(row)`: the reader yields the row r
\* and process_event handles it.  An exception that left process_event would
\* end process() in its except clause.
ProcessRow(r) ==
    /\ pc = "process"
    /\ nread < MaxRows
    /\ LET res == process_event(processed_emails, r)
       IN /\ processed_emails' = res.map
          /\ err' = res.err
          /\ pc' = IF res.propagates THEN "aborted" ELSE "handled"
    /\ row' = r
    /\ nread' = nread + 1
    /\ UNCHANGED <<report, args, email_reasons, csvfile, raw_text, cleaned_text>>

\* process_event has returned: the loop goes back to its head and lets go of
\* the row.
NextIteration ==
    /\ pc = "handled"
    /\ pc' = "process"
    /\ row' = NoRow
    /\ err' = "none"
    /\ UNCHANGED <<processed_emails, nread, report, args, email_reasons,
                   csvfile, raw_text, cleaned_text>>

\* The reader is exhausted: the file is closed and process() returns self.
ProcessReturn ==
    /\ pc = "process"
    /\ pc' = "returned"
    /\ nread' = 0
    /\ UNCHANGED <<processed_emails, row, err, report, args, email_reasons,
                   csvfile, raw_text, cleaned_text>>

\* Variant of PrintEmails in which print_emails assigns the filtered and
\* sorted dict to self.processed_emails instead of the local emails_to_print.
PrintEmails_assigns_mapping(event_type, verbose, sort_by_date, sort_by_email) ==
    /\ pc = "returned"
    /\ report.called =>
         /\ event_type = report.event_type
         /\ verbose = report.verbose
         /\ sort_by_date = report.sort_by_date
         /\ sort_by_email = report.sort_by_email
    /\ LET out == print_emails(processed_emails, event_type, verbose,
                               sort_by_date, sort_by_email)
           filtered == FilterByType(processed_emails, event_type)
           dated == IF sort_by_date THEN SortedStable(filtered, "occurred_at")
                    ELSE filtered
       IN /\ report' = [called |-> TRUE, event_type |-> event_type,
                        verbose |-> verbose, sort_by_date |-> sort_by_date,
                        sort_by_email |-> sort_by_email, out |-> out]
          /\ processed_emails' =
               IF out.raised # "none" THEN processed_emails
               ELSE IF sort_by_email THEN SortedStable(dated, "email") ELSE dated
    /\ UNCHANGED <<row, nread, pc, err, args, email_reasons,
                   csvfile, raw_text, cleaned_text>>

\* A call of print_emails on the returned processor.  A report does not depend
\* on the reports before it, so after the first call only a repetition of that
\* call is explored.
PrintEmails(event_type, verbose, sort_by_date, sort_by_email) ==
    /\ pc = "returned"
    /\ report.called =>
         /\ event_type = report.event_type
         /\ verbose = report.verbose
         /\ sort_by_date = report.sort_by_date
         /\ sort_by_email = report.sort_by_email
    /\ report' = [called |-> TRUE, event_type |-> event_type, verbose |-> verbose,
                  sort_by_date |-> sort_by_date, sort_by_email |-> sort_by_email,
                  out |-> print_emails(processed_emails, event_type, verbose,
                                       sort_by_date, sort_by_email)]
    /\ UNCHANGED <<processed_emails, row, nread, pc, err, args, email_reasons,
                   csvfile, raw_text, cleaned_text>>

Next ==
    \/ \E r \in Rows : ProcessRow(r)
    \/ NextIteration
    \/ ProcessReturn
    \/ \E event_type \in EventType \cup {None}, verbose \in BOOLEAN,
          sort_by_date \in BOOLEAN, sort_by_email \in BOOLEAN :
            PrintEmails(event_type, verbose, sort_by_date, sort_by_email)

Spec == Init /\ [][Next]_vars

-----------------------------------------------------------------------------
\* The command line of process_emails_aws_cloudwatch.py (__main__)

\* parser.parse_args(): -c, -v, -d, -e
CommandArgs ==
    [csv : {None, "emails.csv"}, verbose : BOOLEAN, sort_by_date : BOOLEAN,
     sort_by_email : BOOLEAN]

\* Variant of ConflictingSort that tests the wrong flag.
ConflictingSort_wrong_flag(command_args) ==
    command_args.sort_by_date /\ command_args.verbose

\* line 164: the test that rejects the command line
ConflictingSort(command_args) ==
    command_args.sort_by_date /\ command_args.sort_by_email

Message(text) ==
    [raised |-> "none", header |-> <<[kind |-> "message", text |-> text, total |-> 0]>>,
     lines |-> <<>>]

InitMain ==
    /\ processed_emails = NotCreated
    /\ row = NoRow
    /\ nread = 0
    /\ pc = "main"
    /\ err = "none"
    /\ report = NoReport
    /\ args \in CommandArgs
    /\ email_reasons = <<>>
    /\ csvfile = NoFile
    /\ raw_text = <<>>
    /\ cleaned_text = NotCleaned

\* lines 164-166: both sort flags: a message is printed and the run exits with 1
MainReject ==
    /\ pc = "main"
    /\ ConflictingSort(args)
    /\ report' = [NoReport EXCEPT
                    !.out = Message("You can't sort by date and email at the same time.")]
    /\ pc' = "exit1"
    /\ UNCHANGED <<processed_emails, row, nread, err, args, email_reasons,
                   csvfile, raw_text, cleaned_text>>

\* lines 170-174: no csv file is given
MainDisabled ==
    /\ pc = "main"
    /\ ~ConflictingSort(args)
    /\ args.csv = None
    /\ report' = [NoReport EXCEPT !.out = Message("this method is disabled for now")]
    /\ pc' = "exit0"
    /\ UNCHANGED <<processed_emails, row, nread, err, args, email_reasons,
                   csvfile, raw_text, cleaned_text>>

\* line 169: CSVEmailsProcessor(command_args.csv).process() opens the file;
\* FileNotFoundError is reported by process(), which then returns None, and
\* the call of print_emails on None ends the run with an AttributeError.
MainConstruct(file_exists) ==
    /\ pc = "main"
    /\ ~ConflictingSort(args)
    /\ args.csv # None
    /\ processed_emails' = <<>>
    /\ IF file_exists
       THEN pc' = "process" /\ err' = "none"
       ELSE pc' = "crashed" /\ err' = "File not found"
    /\ UNCHANGED <<row, nread, report, args, email_reasons,
                   csvfile, raw_text, cleaned_text>>

\* line 169: .print_emails(verbose=..., sort_by_date=..., sort_by_email=...)
MainPrint ==
    /\ pc = "returned"
    /\ LET out == print_emails(processed_emails, None, args.verbose,
                               args.sort_by_date, args.sort_by_email)
       IN /\ report' = [called |-> TRUE, event_type |-> None,
                        verbose |-> args.verbose,
                        sort_by_date |-> args.sort_by_date,
                        sort_by_email |-> args.sort_by_email, out |-> out]
          /\ pc' = IF out.raised = "none" THEN "exit0" ELSE "crashed"
    /\ UNCHANGED <<processed_emails, row, nread, err, args, email_reasons,
                   csvfile, raw_text, cleaned_text>>

\* The command line is explored with the rows of at most one recipient.
MainRows ==
    {r \in Rows : Len(r.bouncedRecipients) <= 1 /\ Len(r.recipients) <= 1}

NextMain ==
    \/ MainReject
    \/ MainDisabled
    \/ \E file_exists \in BOOLEAN : MainConstruct(file_exists)
    \/ \E r \in MainRows : ProcessRow(r)
    \/ NextIteration
    \/ ProcessReturn
    \/ MainPrint

SpecMain == InitMain /\ [][NextMain]_vars

-----------------------------------------------------------------------------
\* process() on a csv file whose rows are fixed before the run

\* The rows a file is made of: the rows that are not parsed, the rows of an
\* unknown eventType and the rows without substructure, the Bounce rows of one
\* entry that names no email, and the Delivery rows of one recipient.
FileRows ==
    {Unparsed("nokey"), Unparsed("malformed"), Unparsed("nonobject")}
    \cup {r \in OtherRows : r.eventType # Absent}
    \cup {r \in BounceRows : /\ Len(r.bouncedRecipients) = 1
                             /\ r.bouncedRecipients[1].emailAddress = Absent}
    \cup {r \in RecipientRows : /\ r.eventType = "Delivery" /\ r.timestamp = "T1"
                                /\ Len(r.recipients) = 1}

\* __init__ and the call of process(): the file is open, no row is read
InitProcess ==
    /\ processed_emails = <<>>
    /\ row = NoRow
    /\ nread = 0
    /\ pc = "process"
    /\ err = "none"
    /\ report = NoReport
    /\ args = NoArgs
    /\ email_reasons = <<>>
    /\ csvfile \in SeqsUpTo(FileRows, MaxRows)
    /\ raw_text = <<>>
    /\ cleaned_text = NotCleaned

\* `for row in reader: self.process_event(row)`: the reader yields the next
\* row of the file.
ReadRow ==
    /\ nread < Len(csvfile)
    /\ ProcessRow(csvfile[nread + 1])

\* The reader is exhausted: the file is closed and process() returns self.
FileReturn ==
    /\ pc = "process"
    /\ nread = Len(csvfile)
    /\ pc' = "returned"
    /\ UNCHANGED <<processed_emails, row, nread, err, report, args, email_reasons,
                   csvfile, raw_text, cleaned_text>>

NextProcess ==
    \/ ReadRow
    \/ NextIteration
    \/ FileReturn

\* The loop is sequential code: a step that can be taken is taken.
SpecProcess == InitProcess /\ [][NextProcess]_vars /\ WF_vars(NextProcess)

-----------------------------------------------------------------------------
\* Calls of clean_text (the function of the extractor; __clean_text of
\* CSVEmailsProcessor has the same body)

\* the characters of the texts: two letters, a digit and whitespace characters
Chars == {"a", "b", "5", " ", "\n", "\t"}

\* the texts clean_text is called with: every text of at most MaxLen
\* characters, the diagnostic texts of the rows, and "a\n\n b   c"
Texts ==
    SeqsUpTo(Chars, MaxLen) \cup DiagnosticTexts
    \cup {<<"a", "\n", "\n", " ", "b", " ", " ", " ", "c">>}

InitClean ==
    /\ processed_emails = NotCreated
    /\ row = NoRow
    /\ nread = 0
    /\ pc = "clean_text"
    /\ err = "none"
    /\ report = NoReport
    /\ args = NoArgs
    /\ email_reasons = <<>>
    /\ csvfile = NoFile
    /\ raw_text \in Texts
    /\ cleaned_text = NotCleaned

\* reason = clean_text(reason)
CleanText ==
    /\ pc = "clean_text"
    /\ LET res == clean_text_call(<<Str(raw_text)>>)
       IN /\ res.raised = "none"
          /\ cleaned_text' = res.value
    /\ pc' = "cleaned"
    /\ UNCHANGED <<processed_emails, row, nread, err, report, args, email_reasons,
                   csvfile, raw_text>>

\* clean_text is called with the text it has returned
CleanAgain ==
    /\ pc = "cleaned"
    /\ LET res == clean_text_call(<<Str(cleaned_text)>>)
       IN /\ res.raised = "none"
          /\ raw_text' = cleaned_text
          /\ cleaned_text' = res.value
    /\ pc' = "cleaned again"
    /\ UNCHANGED <<processed_emails, row, nread, err, report, args, email_reasons,
                   csvfile>>

NextClean ==
    \/ CleanText
    \/ CleanAgain

SpecClean == InitClean /\ [][NextClean]_vars

-----------------------------------------------------------------------------
\* extract_emails_aws_cloudwatch.py: process_csv and process_event

\* Variant of AddEmailReason that replaces the set instead of adding to it.
AddEmailReason_overwrites(map, email, reason) ==
    IF email \in Keys(map)
    THEN [map EXCEPT ![IndexOf(map, email)].reasons = {reason}]
    ELSE Append(map, [email |-> email, reasons |-> {reason}])

\* email_reasons[email].add(reason) on a defaultdict(set)
AddEmailReason(map, email, reason) ==
    IF email \in Keys(map)
    THEN [map EXCEPT ![IndexOf(map, email)].reasons = @ \cup {reason}]
    ELSE Append(map, [email |-> email, reasons |-> {reason}])

\* The loop of process_event from entry i on.
RECURSIVE extract_from(_, _, _)
extract_from(map, bounced_recipients, i) ==
    IF i > Len(bounced_recipients) THEN Returned(map)
    ELSE LET recipient == bounced_recipients[i] IN
         IF ~recipient.isdict THEN Raised(map, "AttributeError")
         ELSE LET email == Get(recipient.emailAddress)
                  reason == IF recipient.diagnosticCode = Missing
                            THEN Str(NoDiagnosticCodeProvided)
                            ELSE recipient.diagnosticCode
                  cleaned == clean_text_call(<<reason>>)
              IN IF cleaned.raised # "none" THEN Raised(map, cleaned.raised)
                 ELSE IF Truthy(email)
                 THEN extract_from(AddEmailReason(map, email, cleaned.value),
                                   bounced_recipients, i + 1)
                 ELSE extract_from(map, bounced_recipients, i + 1)

\* process_event(event, email_reasons) of the extractor: the eventType is not
\* looked at.
extract_process_event(map, event) ==
    LET r == CASE event.message = "nokey" -> Raised(map, "KeyError")
               [] event.message = "malformed" -> Raised(map, "JSONDecodeError")
               [] event.message = "nonobject" -> Raised(map, "AttributeError")
               [] event.sub = "bounce" ->
                    extract_from(map, event.bouncedRecipients, 1)
               [] OTHER -> Returned(map)
    IN [map |-> r.map,
        err |-> CASE r.raised = "none" -> "none"
                  [] r.raised = "JSONDecodeError" -> "Error parsing JSON in event"
                  [] r.raised = "KeyError" -> "Missing key in event"
                  [] OTHER -> "Unexpected error processing event"]

\* print_emails(email_reasons, from_csv)
extract_print_emails(map, from_csv) ==
    [raised |-> "none",
     header |-> <<[kind |-> "header",
                   text |-> IF from_csv THEN "Bounced emails from CSV"
                            ELSE "Bounced emails from Cloudwatch",
                   total |-> Len(map)]>>,
     lines |-> [i \in DOMAIN map |->
                  [kind |-> "block", email |-> map[i].email,
                   reasons |-> map[i].reasons]]]

\* process_csv: email_reasons = defaultdict(set), the file is open
InitExtract ==
    /\ processed_emails = NotCreated
    /\ row = NoRow
    /\ nread = 0
    /\ pc = "process_csv"
    /\ err = "none"
    /\ report = NoReport
    /\ args = NoArgs
    /\ email_reasons = <<>>
    /\ csvfile = NoFile
    /\ raw_text = <<>>
    /\ cleaned_text = NotCleaned

\* `for row in reader: process_event(row, email_reasons)`: the reader yields
\* the row r and process_event handles it.
ExtractRow(r) ==
    /\ pc = "process_csv"
    /\ nread < MaxRows
    /\ LET res == extract_process_event(email_reasons, r)
       IN email_reasons' = res.map /\ err' = res.err
    /\ pc' = "extracted"
    /\ row' = r
    /\ nread' = nread + 1
    /\ UNCHANGED <<processed_emails, report, args, csvfile, raw_text, cleaned_text>>

\* process_event has returned: the loop goes back to its head and lets go of
\* the row.
ExtractNext ==
    /\ pc = "extracted"
    /\ pc' = "process_csv"
    /\ row' = NoRow
    /\ err' = "none"
    /\ UNCHANGED <<processed_emails, nread, report, args, email_reasons,
                   csvfile, raw_text, cleaned_text>>

\* The reader is exhausted: print_emails(email_reasons, from_csv=True)
ExtractPrint ==
    /\ pc = "process_csv"
    /\ pc' = "done"
    /\ report' = [NoReport EXCEPT !.called = TRUE,
                                  !.out = extract_print_emails(email_reasons, TRUE)]
    /\ UNCHANGED <<processed_emails, row, nread, err, args, email_reasons,
                   csvfile, raw_text, cleaned_text>>

NextExtract ==
    \/ \E r \in Rows : ExtractRow(r)
    \/ ExtractNext
    \/ ExtractPrint

SpecExtract == InitExtract /\ [][NextExtract]_vars

-----------------------------------------------------------------------------
\* Properties of CSVEmailsProcessor (specification Spec)

\* the summary of an email of the mapping
Summary(map, email) == map[IndexOf(map, email)]

ReasonsOf(map, email) ==
    IF email \in Keys(map) THEN Summary(map, email).reasons ELSE {}

\* a row has just been handled by the loop of process()
RowHandled == pc = "handled"

\* the diagnostic text of a bounce entry, the default text when it has none
DiagnosticOf(recipient) ==
    IF recipient.diagnosticCode = Missing THEN NoDiagnosticCodeProvided
    ELSE recipient.diagnosticCode.text

\* a bounce entry that is an object and whose diagnosticCode is a string or absent
WellFormedEntry(recipient) ==
    recipient.isdict /\ recipient.diagnosticCode.tag \in {"str", "absent"}

\* a row of eventType 'Bounce' all of whose entries are well formed
WellFormedBounce(r) ==
    /\ r.message = "object" /\ r.eventType = "Bounce" /\ r.sub = "bounce"
    /\ \A i \in DOMAIN r.bouncedRecipients : WellFormedEntry(r.bouncedRecipients[i])

\* a Delivery or Send row all of whose recipients are email addresses
WellFormedRecipients(r) ==
    /\ r.message = "object"
    /\ \/ r.eventType = "Delivery" /\ r.sub = "delivery"
       \/ r.eventType = "Send" /\ r.sub = "mail"
    /\ \A i \in DOMAIN r.recipients : r.recipients[i] \in Emails

\* the emails a well-formed row names as recipients
NamedBy(r) ==
    {r.recipients[i] : i \in DOMAIN r.recipients}
    \cup {r.bouncedRecipients[i].emailAddress : i \in
            {j \in DOMAIN r.bouncedRecipients :
               Truthy(Get(r.bouncedRecipients[j].emailAddress))}}

\* C1: after a row of eventType 'Bounce' (with well-formed entries) has been
\* processed, every entry with a non-empty emailAddress has a summary with
\* type Bounce, occurred_at = bounce.timestamp and the cleaned diagnosticCode
\* among its reasons.
C1_BounceRecorded ==
    (RowHandled /\ WellFormedBounce(row)) =>
        \A i \in DOMAIN row.bouncedRecipients :
            LET recipient == row.bouncedRecipients[i]
                email == recipient.emailAddress
            IN Truthy(Get(email)) =>
                 /\ email \in Keys(processed_emails)
                 /\ Summary(processed_emails, email).type = "Bounce"
                 /\ Summary(processed_emails, email).occurred_at = Get(row.timestamp)
                 /\ clean_text(DiagnosticOf(recipient))
                      \in Summary(processed_emails, email).reasons

\* C2: last write wins: after a well-formed Bounce, Delivery or Send row has
\* been processed, every email of the mapping that the row names has the kind
\* and the timestamp of that row (the row is the last one that names it).
C2_LastWriteWins ==
    (RowHandled /\ (WellFormedBounce(row) \/ WellFormedRecipients(row))) =>
        \A email \in NamedBy(row) \cap Keys(processed_emails) :
            /\ Summary(processed_emails, email).type = row.eventType
            /\ Summary(processed_emails, email).occurred_at = Get(row.timestamp)

\* C3: the reasons of an email only grow: every step leaves each email a
\* superset of the reasons it had, and the processing of a Delivery or Send
\* row leaves the reasons of every email as they were.
C3_ReasonsOnlyGrow ==
    [][\A email \in Keys(processed_emails) \cup Keys(processed_emails') :
         /\ ReasonsOf(processed_emails, email) \subseteq ReasonsOf(processed_emails', email)
         /\ (nread' = nread + 1 /\ row'.eventType \in {"Delivery", "Send"}) =>
              ReasonsOf(processed_emails', email) = ReasonsOf(processed_emails, email)
      ]_vars

\* a Delivery or Send row has changed a mapping that already had entries
C3_Witness ==
    /\ RowHandled /\ nread = MaxRows
    /\ row.eventType \in {"Delivery", "Send"}
    /\ Len(processed_emails) >= 2
    /\ \A i \in DOMAIN processed_emails : processed_emails[i].reasons = {}

\* C4: a row whose message is not valid JSON leaves the mapping as it was and
\* the loop of process() goes on.  By induction on the rows, the final mapping
\* is the one of the input without its malformed rows.
C4_MalformedRowSkipped ==
    [][(pc = "process" /\ nread' = nread + 1 /\ row'.message = "malformed") =>
          /\ processed_emails' = processed_emails
          /\ pc' = "handled"
          /\ err' = "Error parsing JSON in event"
      ]_vars

\* a malformed row was processed after a row that filled the mapping
C4_Witness ==
    /\ RowHandled /\ row.message = "malformed"
    /\ processed_emails # <<>>

\* the emails a report lists, in the order of the lines
Listed == [i \in DOMAIN report.out.lines |-> report.out.lines[i].email]

\* C5: a report with event_type = Bounce lists exactly the emails whose type
\* is Bounce at the end of processing, each once; an email whose type is
\* Delivery or Send (also one that got a Bounce row before) is not listed.
C5_BounceFilter ==
    (pc = "returned" /\ report.called /\ report.event_type = "Bounce") =>
        /\ report.out.raised = "none"
        /\ {Listed[i] : i \in DOMAIN Listed}
             = {email \in Keys(processed_emails) :
                  Summary(processed_emails, email).type = "Bounce"}
        /\ \A i, j \in DOMAIN Listed : i # j => Listed[i] # Listed[j]
        /\ \A i \in DOMAIN Listed :
             Summary(processed_emails, Listed[i]).type \notin {"Delivery", "Send"}

\* a Bounce report on a mapping whose emails all ended as Delivery or Send
C5_Witness ==
    /\ pc = "returned" /\ report.called /\ report.event_type = "Bounce"
    /\ Len(processed_emails) >= 2
    /\ report.out.header = <<build_print_header("Bounce", 0)>>
    /\ report.out.lines = <<>>

-----------------------------------------------------------------------------
\* Properties of the bounce extractor (specification SpecExtract)

\* the least index of an entry at which the loop of process_event raises
\* (an entry that is no object, or whose diagnosticCode is not a string),
\* Len + 1 if there is none
FirstRaising(bounced_recipients) ==
    IF \E i \in DOMAIN bounced_recipients : ~WellFormedEntry(bounced_recipients[i])
    THEN CHOOSE i \in DOMAIN bounced_recipients :
           /\ ~WellFormedEntry(bounced_recipients[i])
           /\ \A j \in 1..(i - 1) : WellFormedEntry(bounced_recipients[j])
    ELSE Len(bounced_recipients) + 1

\* the cleaned diagnostic strings of the entries 1..upto of a row that name email
EntryReasons(r, email, upto) ==
    {clean_text(DiagnosticOf(r.bouncedRecipients[i])) :
       i \in {j \in 1..upto : /\ WellFormedEntry(r.bouncedRecipients[j])
                              /\ r.bouncedRecipients[j].emailAddress = email}}

-----------------------------------------------------------------------------
\* Properties of the command line (specification SpecMain)

\* C7: when both sort flags are given, no processor is created, no row is
\* read and print_emails is not called: the run is in its first step or has
\* exited with status 1.
C7_ConflictingSortRejected ==
    (args.sort_by_date /\ args.sort_by_email) =>
        /\ pc \in {"main", "exit1"}
        /\ processed_emails = NotCreated
        /\ nread = 0 /\ row = NoRow
        /\ ~report.called

\* the run with both sort flags has exited with status 1
C7_Witness ==
    /\ args.sort_by_date /\ args.sort_by_email /\ args.csv # None
    /\ pc = "exit1"

-----------------------------------------------------------------------------
\* Properties of print_emails (specification Spec)

\* C8: a call of print_emails with sort_by_date and sort_by_email prints
\* neither a header line nor an email line.
C8_BothSortsNoReport ==
    (pc = "returned" /\ report.called
       /\ report.sort_by_date /\ report.sort_by_email) =>
        /\ report.out.header = <<>>
        /\ report.out.lines = <<>>

\* C9: a call of print_emails with sort_by_email on a mapping that is not
\* empty prints a report whose emails are in strictly ascending order.
C9_SortedByEmail ==
    (pc = "returned" /\ report.called /\ report.sort_by_email
       /\ ~report.sort_by_date /\ processed_emails # <<>>) =>
        /\ report.out.raised = "none"
        /\ \A i, j \in DOMAIN Listed :
             i < j => EmailRank(Listed[i]) < EmailRank(Listed[j])

\* the rank of an occurred_at, an absent one first
OccurredAtRank(item) ==
    IF item.occurred_at = None THEN -1 ELSE TimestampRank(item.occurred_at)

\* C10: a call of print_emails with sort_by_date prints a report that lists
\* every email of the (filtered) mapping once, in ascending order of
\* occurred_at with the absent ones first, emails with the same occurred_at
\* in their insertion order.
C10_SortedByDate ==
    (pc = "returned" /\ report.called /\ report.sort_by_date
       /\ ~report.sort_by_email) =>
        /\ report.out.raised = "none"
        /\ Len(Listed) = Len(FilterByType(processed_emails, report.event_type))
        /\ {Listed[i] : i \in DOMAIN Listed}
             = Keys(FilterByType(processed_emails, report.event_type))
        /\ \A i, j \in DOMAIN Listed :
             i < j =>
               LET x == Summary(processed_emails, Listed[i])
                   y == Summary(processed_emails, Listed[j])
               IN /\ OccurredAtRank(x) <= OccurredAtRank(y)
                  /\ OccurredAtRank(x) = OccurredAtRank(y) =>
                       IndexOf(processed_emails, Listed[i])
                         < IndexOf(processed_emails, Listed[j])

-----------------------------------------------------------------------------
\* Properties of the effect of a row on the mapping (specification Spec)

\* C11: no key of processed_emails is an empty or absent email address: an
\* entry of a Bounce, Delivery or Send row that is empty or missing adds
\* nothing to the mapping.
C11_NoEmptyKey ==
    \A email \in Keys(processed_emails) : Truthy(email)

\* C12: a row for which process_event writes an error to stderr leaves the
\* mapping as it was before the row, also when the exception is raised at a
\* later recipient of the row.
C12_ErrorRowContributesNothing ==
    [][(pc = "process" /\ nread' = nread + 1
          /\ err' \notin {"none", "Skipping event with unknown eventType"}) =>
          processed_emails' = processed_emails
      ]_vars

-----------------------------------------------------------------------------
\* Properties of process() on a fixed file (specification SpecProcess)

\* C13: whatever the rows of the file are, process() hands every row to
\* process_event once, in the order of the file (the k-th row read is the
\* k-th row of the file and the loop goes on after it), and then returns the
\* processor with every row read.
C13_EveryRowVisitedThenReturns ==
    /\ [][/\ nread' \in {nread, nread + 1}
          /\ nread' = nread + 1 =>
               /\ nread' <= Len(csvfile)
               /\ row' = csvfile[nread']
               /\ pc' = "handled"
          /\ pc' = "returned" => nread = Len(csvfile)
          /\ pc' # "aborted"
         ]_vars
    /\ \A k \in 1..MaxRows :
         (pc = "process" /\ nread = k - 1 /\ k <= Len(csvfile))
           ~> (pc = "handled" /\ nread = k /\ row = csvfile[k])
    /\ <>(pc = "returned" /\ nread = Len(csvfile))

\* process() has returned after a file of MaxRows rows none of which changed
\* the mapping: each raised an exception or had an unknown eventType
C13_Witness ==
    /\ pc = "returned" /\ nread = MaxRows /\ Len(csvfile) = MaxRows
    /\ csvfile[1].message = "malformed"
    /\ csvfile[MaxRows].message = "nonobject"
    /\ processed_emails = <<>>

-----------------------------------------------------------------------------
\* Further properties of the effect of a row (specification Spec)

\* C14: a row whose message is an object with an absent eventType, or one
\* that is not 'Bounce', 'Delivery' or 'Send', leaves the mapping as it was,
\* whatever substructures and recipients the row has; the skip notice is written.
C14_UnknownEventTypeNoUpdate ==
    [][(pc = "process" /\ nread' = nread + 1 /\ row'.message = "object"
          /\ row'.eventType \notin {"Bounce", "Delivery", "Send"}) =>
          /\ processed_emails' = processed_emails
          /\ err' = "Skipping event with unknown eventType"
          /\ pc' = "handled"
      ]_vars

\* a row without eventType whose delivery substructure names a@x.com has
\* been handled, and a@x.com is not in the mapping, which has another entry
C14_Witness ==
    /\ RowHandled
    /\ row.eventType = Absent /\ row.sub = "delivery"
    /\ row.recipients = <<"a@x.com">>
    /\ processed_emails # <<>>
    /\ "a@x.com" \notin Keys(processed_emails)

\* C15: when a row has been processed, processing it once more leaves the
\* mapping as it is: the same keys in the same order, the same type,
\* occurred_at and reasons for every email.  Every reachable mapping is the
\* mapping before some row, and every row is tried on it.  The same holds of
\* the reasons the extractor's process_event collects from the row.
C15_SameRowTwiceIdempotent ==
    RowHandled =>
        /\ process_event(processed_emails, row).map = processed_emails
        /\ LET once == extract_process_event(<<>>, row).map
           IN extract_process_event(once, row).map = once

\* a Send row has changed the type and the occurred_at of an email that an
\* earlier row had stored, and has added a second email
C15_Witness ==
    /\ RowHandled /\ nread = MaxRows
    /\ row.eventType = "Send" /\ row.timestamp = "T0"
    /\ row.recipients = <<"b@x.com", "a@x.com">>
    /\ Keys(processed_emails) = {"a@x.com", "b@x.com"}
    /\ processed_emails[1].email = "a@x.com"
    /\ \A i \in DOMAIN processed_emails : processed_emails[i].type = "Send"

-----------------------------------------------------------------------------
\* Further properties of the bounce extractor (specification SpecExtract)

\* a row with a bounce substructure whose entries are all objects, one of
\* them without emailAddress, and whose entries with an emailAddress have a
\* text or no diagnosticCode
HasEntryWithoutEmail(r) ==
    /\ r.message = "object" /\ r.sub = "bounce"
    /\ \E i \in DOMAIN r.bouncedRecipients :
         r.bouncedRecipients[i].emailAddress = Absent
    /\ \A i \in DOMAIN r.bouncedRecipients :
         /\ r.bouncedRecipients[i].isdict
         /\ r.bouncedRecipients[i].emailAddress # Absent =>
              WellFormedEntry(r.bouncedRecipients[i])

\* C16: an entry of bouncedRecipients without emailAddress is skipped
\* silently, whatever its diagnosticCode is: the row reports no error, and
\* the reasons after the row are those before it and the cleaned diagnostic
\* strings of the row's entries that have an emailAddress, before and after
\* the skipped entry.
C16_EntryWithoutEmailSkipped ==
    [][(pc = "process_csv" /\ nread' = nread + 1 /\ HasEntryWithoutEmail(row')) =>
          /\ err' = "none"
          /\ Keys(email_reasons') \subseteq Emails
          /\ \A email \in Emails :
               ReasonsOf(email_reasons', email)
                 = ReasonsOf(email_reasons, email)
                     \cup {clean_text(DiagnosticOf(row'.bouncedRecipients[i])) :
                             i \in {j \in DOMAIN row'.bouncedRecipients :
                                      row'.bouncedRecipients[j].emailAddress = email}}
      ]_vars

\* C17: the empty string is never stored as a reason, and after a row whose
\* bounce entries are all objects, an entry with a non-empty emailAddress
\* whose diagnosticCode is absent, null or the empty string has given its
\* email the reason 'No diagnostic code provided'.
C17_DefaultReason ==
    /\ \A i \in DOMAIN email_reasons : <<>> \notin email_reasons[i].reasons
    /\ (pc = "extracted" /\ row.message = "object" /\ row.sub = "bounce"
          /\ \A i \in DOMAIN row.bouncedRecipients : row.bouncedRecipients[i].isdict) =>
         \A i \in DOMAIN row.bouncedRecipients :
            LET recipient == row.bouncedRecipients[i]
            IN (/\ Truthy(Get(recipient.emailAddress))
                /\ recipient.diagnosticCode \in {Missing, Null, Str(<<>>)}) =>
                 NoDiagnosticCodeProvided
                   \in ReasonsOf(email_reasons, recipient.emailAddress)

-----------------------------------------------------------------------------
\* Further properties of print_emails (specification Spec)

\* C18: a call of print_emails, with any event_type, verbose and sort flags,
\* leaves processed_emails as it was (the same entries in the same order), and
\* a call that repeats the arguments of the call before it gives the same
\* outcome and the same lines.
C18_ReportingIsReadOnly ==
    [][(pc = "returned" /\ report'.called) =>
          /\ processed_emails' = processed_emails
          /\ (/\ report.called
              /\ report'.event_type = report.event_type
              /\ report'.verbose = report.verbose
              /\ report'.sort_by_date = report.sort_by_date
              /\ report'.sort_by_email = report.sort_by_email) =>
               report'.out = report.out
      ]_vars

\* a Delivery report sorted by email has listed a@x.com before b@x.com, and
\* the mapping still holds b@x.com before a@x.com and a Send entry
C18_Witness ==
    /\ pc = "returned" /\ report.called
    /\ report.event_type = "Delivery" /\ report.sort_by_email /\ report.verbose
    /\ Listed = <<"a@x.com", "b@x.com">>
    /\ Len(processed_emails) >= 2
    /\ processed_emails[1].email = "b@x.com"
    /\ \E i \in DOMAIN processed_emails : processed_emails[i].type = "Send"

-----------------------------------------------------------------------------
\* Properties of clean_text (specification SpecClean)

\* the characters of a text that are not whitespace, in their order
NonSpace(t) == SelectSeq(t, LAMBDA c : ~IsSpace(c))

\* the words of a text (its maximal runs of characters that are not
\* whitespace) joined by one space each, read from the left with the word
\* that is being read
RECURSIVE JoinWords(_, _)
JoinWords(t, word) ==
    IF t = <<>> THEN word
    ELSE IF IsSpace(Head(t))
         THEN IF word = <<>> THEN JoinWords(Tail(t), <<>>)
              ELSE LET rest == JoinWords(Tail(t), <<>>)
                   IN IF rest = <<>> THEN word ELSE word \o <<" ">> \o rest
         ELSE JoinWords(Tail(t), Append(word, Head(t)))

\* C19: the text clean_text returns is the text with every maximal run of
\* whitespace replaced by one space and without leading and trailing
\* whitespace: it does not begin or end with a space, has no two adjacent
\* spaces and no whitespace other than the space, has the non-whitespace
\* characters of the text in their order, and clean_text returns it unchanged.
C19_CleanText ==
    /\ pc = "cleaned" =>
         /\ cleaned_text = JoinWords(raw_text, <<>>)
         /\ cleaned_text # <<>> =>
              /\ cleaned_text[1] # " "
              /\ cleaned_text[Len(cleaned_text)] # " "
         /\ \A i \in 1..(Len(cleaned_text) - 1) :
              ~(cleaned_text[i] = " " /\ cleaned_text[i + 1] = " ")
         /\ \A i \in DOMAIN cleaned_text : cleaned_text[i] \notin {"\n", "\t", "\r", "\f"}
         /\ NonSpace(cleaned_text) = NonSpace(raw_text)
    /\ pc = "cleaned again" => cleaned_text = raw_text

\* "a\n\n b   c" has been cleaned to "a b c"
C19_Witness ==
    /\ pc = "cleaned"
    /\ raw_text = <<"a", "\n", "\n", " ", "b", " ", " ", " ", "c">>
    /\ cleaned_text = <<"a", " ", "b", " ", "c">>

-----------------------------------------------------------------------------
\* Properties of the summaries of CSVEmailsProcessor (specification Spec)

\* the values a row has in the position of a recipient: the elements of
\* recipients / destination and the emailAddress of the bounce entries
RecipientsOf(r) ==
    {r.recipients[i] : i \in DOMAIN r.recipients}
    \cup {Get(r.bouncedRecipients[i].emailAddress) : i \in DOMAIN r.bouncedRecipients}

\* C20: no summary of processed_emails is the default summary: the type of
\* every entry is Bounce, Delivery or Send, never None; and an entry is added
\* only by the processing of a row of a known eventType that has its key as a
\* recipient.
C20_DefaultNeverObservable ==
    /\ [](\A i \in DOMAIN processed_emails :
            processed_emails[i].type \in {"Bounce", "Delivery", "Send"})
    /\ [][\A email \in Keys(processed_emails') \ Keys(processed_emails) :
            /\ pc = "process" /\ nread' = nread + 1
            /\ row'.eventType \in {"Bounce", "Delivery", "Send"}
            /\ email \in RecipientsOf(row')
            /\ Summary(processed_emails', email).type = row'.eventType
         ]_vars

\* a row has added one entry to a mapping with an entry, and has raised
\* an exception after it
C20_Witness ==
    /\ RowHandled /\ nread = MaxRows
    /\ err = "Unexpected error processing event"
    /\ Len(row.recipients) = 2 /\ row.recipients[1] = "b@x.com"
    /\ Keys(processed_emails) = {"a@x.com", "b@x.com"}
    /\ processed_emails[1].email = "a@x.com"
    /\ processed_emails[1].type # row.eventType

====
